---- MODULE Spec2Model ----
(***************************************************************************)
(* Model of the pi-plan extension: the plan-mode orchestrator of           *)
(* src/src/index.ts (planExtension) driving the approval selector of       *)
(* src/src/plan-action-ui.ts (selectPlanNextActionWithInlineNote).         *)
(*                                                                         *)
(* One action per command / event handler / selector keystroke.  The host  *)
(* (tool registry, active tool list, hasUI) is the environment.  Strings   *)
(* the code transforms (the continue note) are sequences of one-character  *)
(* strings; src/utils.ts is not part of the sources at hand, so its four   *)
(* helpers are modelled from the specification and the README.             *)
(***************************************************************************)
EXTENDS Integers, Sequences, FiniteSets, TLC

VARIABLES
    planModeEnabled,    \* index.ts:121
    executionMode,      \* index.ts:122
    restoreTools,       \* index.ts:123  None (null) or Some(list)
    todoItems,          \* index.ts:124  sequence of [step, text, completed]
    activeTools,        \* host: pi.getActiveTools() / pi.setActiveTools()
    allTools,           \* host: pi.getAllTools() names, registry order
    hasUI,              \* host: ctx.hasUI
    uiStatus,           \* host: ctx.ui.setStatus(STATUS_KEY, ..)
    uiWidget,           \* host: ctx.ui.setWidget(TODO_WIDGET_KEY, ..)
    pc,                 \* "idle" | "selecting" (agent_end suspended at its await)
    cursorIndex,        \* plan-action-ui.ts:52 (0-based)
    isContinueNoteEditorOpen, \* plan-action-ui.ts:53
    continueNote,       \* plan-action-ui.ts:54
    last,               \* name of the handler (and branch) that ran last
    sent,               \* pi.sendUserMessage calls of the last handler
    notices,            \* notify() calls of the last handler
    callResult,         \* last tool_call event and the handler's answer
    roundStart,         \* orchestrator state when the last agent_end began
    enterSnapshot,      \* host active list right before the last effective enter
    lastArgs,           \* argument text of the /plan command that ran last
    prompt,             \* system prompt returned by the last before_agent_start
    result,             \* result the selector handed to done() last
    label               \* Continue option label of the last render(width)

vars == << planModeEnabled, executionMode, restoreTools, todoItems, activeTools,
           allTools, hasUI, uiStatus, uiWidget, pc, cursorIndex,
           isContinueNoteEditorOpen, continueNote, last, sent, notices,
           callResult, roundStart, enterSnapshot, lastArgs, prompt, result, label >>

orchVars == << planModeEnabled, executionMode, restoreTools, todoItems, activeTools >>
selectorVars == << cursorIndex, isContinueNoteEditorOpen, continueNote >>

-----------------------------------------------------------------------------
(* Bounds and finite input sets *)

MaxNoteLen == 4
MaxSteps == 2

None == << >>
Some(x) == << x >>

Range(s) == { s[i] : i \in 1..Len(s) }

NoteChars == { "a", " " }

StepTexts == { "Write parser", "Add tests" }

RECURSIVE SeqsUpTo(_, _)
SeqsUpTo(S, n) ==
    IF n = 0 THEN { << >> }
    ELSE LET shorter == SeqsUpTo(S, n - 1)
         IN  shorter \cup { Append(s, x) : s \in { t \in shorter : Len(t) = n - 1 }, x \in S }

\* Tool registries the host may expose (names in registry order).
Registries ==
    { << "edit", "bash", "read" >>,
      << "edit", "write", "mcp" >>,
      << "write", "edit" >> }

\* Active tool lists the host may report.
ToolLists ==
    { << >>,
      << "edit", "bash", "read" >>,
      << "bash" >>,
      << "edit", "mcp", "mcp" >>,
      << "mcp", "edit" >>,
      << "edit" >>,
      << "write", "edit" >> }

ActiveChoices(all) == { l \in ToolLists : Range(l) \subseteq Range(all) }

-----------------------------------------------------------------------------
(* Program constants *)

PLAN_TOOL_CANDIDATES ==
    << "read", "bash", "grep", "find", "ls", "lsp", "ast_search",
       "web_search", "fetch_content", "get_search_content" >>

WRITE_LIKE_TOOLS_noAstRewrite == { "edit", "write" }

WRITE_LIKE_TOOLS == { "edit", "write", "ast_rewrite" }

ACTION_OPTIONS == << "approve", "continue", "regenerate", "exit" >>

\* findIndex of "continue" in ACTION_OPTIONS, 0-based as in the code.
CONTINUE_OPTION_INDEX == (CHOOSE i \in 1..Len(ACTION_OPTIONS) : ACTION_OPTIONS[i] = "continue") - 1

-----------------------------------------------------------------------------
(* Step records and the helpers of src/utils.ts *)

Step(i, t, c) == [ step |-> i, text |-> t, completed |-> c ]

\* extractTodoItems: the numbered entries of the text's "Plan:" block become
\* records with ordinals 1..N, all incomplete.  A text is represented by the
\* entries of its plan block and the ordinals of its [DONE:n] markers.
extractTodoItems(text) ==
    [ i \in 1..Len(text.plan) |-> Step(i, text.plan[i], FALSE) ]

\* markCompletedSteps: every marker naming an incomplete step flips it.
markedItems(text, items) ==
    [ i \in 1..Len(items) |->
        IF items[i].step \in Range(text.markers)
        THEN [ items[i] EXCEPT !.completed = TRUE ]
        ELSE items[i] ]

markCompletedCount(text, items) ==
    Cardinality({ i \in 1..Len(items) :
                    ~items[i].completed /\ items[i].step \in Range(text.markers) })

\* normalizeArg on the argument strings the model feeds to /plan.
normalizeArg(raw) ==
    CASE raw = "OFF" -> "off"
      [] raw = "On" -> "on"
      [] OTHER -> raw

\* String.prototype.trim on the argument strings the model feeds to /plan.
TrimArg(raw) ==
    CASE raw = "   " -> ""
      [] raw = " On " -> "On"
      [] OTHER -> raw

\* isSafeReadOnlyCommand: the answers the classifier can give for a command.
\* README: ls / git status are inspection commands, rm / redirections mutate;
\* nothing at hand fixes its answer for the empty command.
SafeAnswers(command) ==
    CASE command \in { "ls", "git status" } -> { TRUE }
      [] command \in { "rm -rf x", "echo hi > f" } -> { FALSE }
      [] OTHER -> BOOLEAN

-----------------------------------------------------------------------------
(* Assistant texts and messages *)

EmptyText == [ plan |-> << >>, markers |-> << >>, prose |-> FALSE ]

IsEmptyText(t) == t.plan = << >> /\ t.markers = << >> /\ ~t.prose

Plans == SeqsUpTo(StepTexts, MaxSteps)

MarkerLists == { << >>, << 1 >>, << 2 >>, << 2, 1 >>, << 1, 1 >>, << 0 >>, << MaxSteps + 1 >> }

Texts ==
    { [ plan |-> p, markers |-> << >>, prose |-> TRUE ] : p \in Plans }
    \cup { [ plan |-> << >>, markers |-> m, prose |-> TRUE ] : m \in MarkerLists }
    \cup { EmptyText }

Messages ==
    { [ role |-> "assistant", text |-> t ] : t \in Texts }
    \cup { [ role |-> "user", text |-> [ plan |-> << "Add tests" >>, markers |-> << 1 >>, prose |-> TRUE ] ] }

\* getAssistantTextFromMessage
getAssistantTextFromMessage(message) ==
    IF message.role # "assistant" THEN EmptyText ELSE message.text

-----------------------------------------------------------------------------
(* The orchestrator's closure state as a record, so that a handler's nested  *)
(* calls (enterPlanMode, exitPlanMode, setStatus, notify ..) compose.        *)

Cur ==
    [ planModeEnabled |-> planModeEnabled,
      executionMode   |-> executionMode,
      restoreTools    |-> restoreTools,
      todoItems       |-> todoItems,
      activeTools     |-> activeTools,
      uiStatus        |-> uiStatus,
      uiWidget        |-> uiWidget,
      notices         |-> << >>,
      sent            |-> << >> ]

Commit(s) ==
    /\ planModeEnabled' = s.planModeEnabled
    /\ executionMode' = s.executionMode
    /\ restoreTools' = s.restoreTools
    /\ todoItems' = s.todoItems
    /\ activeTools' = s.activeTools
    /\ uiStatus' = s.uiStatus
    /\ uiWidget' = s.uiWidget
    /\ notices' = s.notices
    /\ sent' = s.sent

NoStatus == [ kind |-> "none", done |-> 0, total |-> 0 ]

completedCount(items) == Cardinality({ i \in 1..Len(items) : items[i].completed })

\* notify(pi, ctx, message, type): ui.notify with a UI, else a custom message.
notify(s, message, type) ==
    [ s EXCEPT !.notices = Append(@, [ msg |-> message, type |-> type,
                                        channel |-> IF hasUI THEN "ui" ELSE "message",
                                        done |-> 0, total |-> 0 ]) ]

\* notify of the /todos report "Plan progress <done>/<total>" and its list.
notifyProgress(s, done, total) ==
    [ s EXCEPT !.notices = Append(@, [ msg |-> "Plan progress", type |-> "info",
                                        channel |-> IF hasUI THEN "ui" ELSE "message",
                                        done |-> done, total |-> total ]) ]

\* updateTodoWidget
updateTodoWidget(s) ==
    IF ~hasUI THEN s
    ELSE IF ~s.executionMode \/ Len(s.todoItems) = 0
         THEN [ s EXCEPT !.uiWidget = None ]
         ELSE [ s EXCEPT !.uiWidget =
                  Some([ i \in 1..Len(s.todoItems) |->
                           [ checked |-> s.todoItems[i].completed,
                             text |-> s.todoItems[i].text ] ]) ]

\* setStatus
setStatus(s) ==
    IF ~hasUI THEN s
    ELSE IF s.executionMode /\ Len(s.todoItems) > 0
         THEN updateTodoWidget(
                [ s EXCEPT !.uiStatus = [ kind |-> "progress",
                                          done |-> completedCount(s.todoItems),
                                          total |-> Len(s.todoItems) ] ])
         ELSE updateTodoWidget(
                [ s EXCEPT !.uiStatus = IF s.planModeEnabled
                                        THEN [ kind |-> "plan", done |-> 0, total |-> 0 ]
                                        ELSE NoStatus ])

RECURSIVE Dedupe(_)
\* [...new Set(list)]: first occurrences, in order.
Dedupe(s) ==
    IF s = << >> THEN << >>
    ELSE LET front == Dedupe(SubSeq(s, 1, Len(s) - 1))
             x == s[Len(s)]
         IN  IF x \in Range(front) THEN front ELSE Append(front, x)

getPlanTools_noDedupe(s) ==
    LET IsAvailable(tool) == tool \in Range(allTools)
        NotWriteLike(tool) == tool \notin WRITE_LIKE_TOOLS
        planTools == SelectSeq(PLAN_TOOL_CANDIDATES, IsAvailable)
    IN  IF Len(planTools) > 0
        THEN planTools
        ELSE SelectSeq(s.activeTools, NotWriteLike)

\* getPlanTools
getPlanTools(s) ==
    LET IsAvailable(tool) == tool \in Range(allTools)
        NotWriteLike(tool) == tool \notin WRITE_LIKE_TOOLS
        planTools == SelectSeq(PLAN_TOOL_CANDIDATES, IsAvailable)
    IN  IF Len(planTools) > 0
        THEN planTools
        ELSE Dedupe(SelectSeq(s.activeTools, NotWriteLike))

restoreNormalTools_ignoreSnapshot(s) ==
    [ s EXCEPT !.activeTools = IF Len(allTools) > 0 THEN allTools ELSE @,
               !.restoreTools = None ]

restoreNormalTools_keepsSnapshot(s) ==
    LET toolsToRestore ==
            IF s.restoreTools # None /\ Len(s.restoreTools[1]) > 0
            THEN s.restoreTools[1]
            ELSE allTools
    IN  [ s EXCEPT !.activeTools = IF Len(toolsToRestore) > 0 THEN toolsToRestore ELSE @ ]

\* restoreNormalTools
restoreNormalTools(s) ==
    LET toolsToRestore ==
            IF s.restoreTools # None /\ Len(s.restoreTools[1]) > 0
            THEN s.restoreTools[1]
            ELSE allTools
    IN  [ s EXCEPT !.activeTools = IF Len(toolsToRestore) > 0 THEN toolsToRestore ELSE @,
                   !.restoreTools = None ]

\* The part of enterPlanMode after its already-enabled guard, with the
\* progress reset done before (early) or after the empty-tool-set check and
\* with or without resetting executionMode.
enterFrom(s, early, resetExecution) ==
    LET currentTools == s.activeTools
        s1 == [ s EXCEPT !.restoreTools =
                  IF Len(currentTools) > 0 THEN Some(currentTools) ELSE None ]
        planTools == getPlanTools(s1)
        cleared == [ s1 EXCEPT !.todoItems = << >>,
                               !.executionMode = IF resetExecution THEN FALSE ELSE @ ]
    IN  IF Len(planTools) = 0
        THEN notify(IF early THEN cleared ELSE s1,
                    "No read-only tool set could be resolved.", "error")
        ELSE notify(setStatus([ cleared EXCEPT !.activeTools = planTools,
                                               !.planModeEnabled = TRUE ]),
                    "Plan mode enabled (read-only)", "info")

enterPlanMode_clearsBeforeCheck(s) ==
    IF s.planModeEnabled
    THEN notify(s, "Plan mode is already enabled.", "info")
    ELSE enterFrom(s, TRUE, TRUE)

enterPlanMode_keepsExecution(s) ==
    IF s.planModeEnabled
    THEN notify(s, "Plan mode is already enabled.", "info")
    ELSE enterFrom(s, FALSE, FALSE)

enterPlanMode_recaptures(s) ==
    IF s.planModeEnabled
    THEN notify([ s EXCEPT !.restoreTools =
                    IF Len(s.activeTools) > 0 THEN Some(s.activeTools) ELSE None ],
                "Plan mode is already enabled.", "info")
    ELSE enterFrom(s, FALSE, TRUE)

\* enterPlanMode
enterPlanMode(s) ==
    IF s.planModeEnabled
    THEN notify(s, "Plan mode is already enabled.", "info")
    ELSE LET currentTools == s.activeTools
             s1 == [ s EXCEPT !.restoreTools =
                       IF Len(currentTools) > 0 THEN Some(currentTools) ELSE None ]
             planTools == getPlanTools(s1)
         IN  IF Len(planTools) = 0
             THEN notify(s1, "No read-only tool set could be resolved.", "error")
             ELSE notify(
                    setStatus([ s1 EXCEPT !.todoItems = << >>,
                                          !.executionMode = FALSE,
                                          !.activeTools = planTools,
                                          !.planModeEnabled = TRUE ]),
                    "Plan mode enabled (read-only)", "info")

exitPlanMode_keepsProgress(s, reason, resetProgress) ==
    IF ~s.planModeEnabled
    THEN LET s1 == IF reason # "" THEN notify(s, reason, "info") ELSE s
         IN  IF resetProgress
             THEN setStatus([ s1 EXCEPT !.executionMode = FALSE, !.todoItems = << >> ])
             ELSE s1
    ELSE LET s1 == restoreNormalTools([ s EXCEPT !.planModeEnabled = FALSE ])
             s3 == setStatus(s1)
         IN  IF reason # "" THEN notify(s3, reason, "info") ELSE s3

exitPlanMode_restoresWhenIdle(s, reason, resetProgress) ==
    LET s1 == restoreNormalTools([ s EXCEPT !.planModeEnabled = FALSE ])
        s2 == IF resetProgress
              THEN [ s1 EXCEPT !.executionMode = FALSE, !.todoItems = << >> ]
              ELSE s1
        s3 == setStatus(s2)
    IN  IF reason # "" THEN notify(s3, reason, "info") ELSE s3

\* exitPlanMode(ctx, reason, { resetProgress })
exitPlanMode(s, reason, resetProgress) ==
    IF ~s.planModeEnabled
    THEN LET s1 == IF reason # "" THEN notify(s, reason, "info") ELSE s
         IN  IF resetProgress
             THEN setStatus([ s1 EXCEPT !.executionMode = FALSE, !.todoItems = << >> ])
             ELSE s1
    ELSE LET s1 == restoreNormalTools([ s EXCEPT !.planModeEnabled = FALSE ])
             s2 == IF resetProgress
                   THEN [ s1 EXCEPT !.executionMode = FALSE, !.todoItems = << >> ]
                   ELSE s1
             s3 == setStatus(s2)
         IN  IF reason # "" THEN notify(s3, reason, "info") ELSE s3

\* The three modes of the specification, read off the two flags.
Mode ==
    IF planModeEnabled THEN "Planning"
    ELSE IF executionMode THEN "Executing" ELSE "Idle"

ModeOf(s) ==
    IF s.planModeEnabled THEN "Planning"
    ELSE IF s.executionMode THEN "Executing" ELSE "Idle"

-----------------------------------------------------------------------------
(* Messages sent with pi.sendUserMessage *)

UserMessage(kind, note, step, text) ==
    [ kind |-> kind, note |-> note, step |-> step, text |-> text ]

send(s, m) == [ s EXCEPT !.sent = Append(@, m) ]

NoCall == [ tool |-> "", hasCommand |-> FALSE, command |-> "", safe |-> TRUE,
            planning |-> FALSE, block |-> FALSE, reason |-> "" ]

NoRound == [ mode |-> "Idle", todoItems |-> << >>, restoreTools |-> None,
             activeTools |-> << >>, extracted |-> << >> ]

\* No /plan command ran last (distinct from every argument text).
NoArgs == "<none>"

\* done() was not called, no label was built.
NoResult == [ cancelled |-> FALSE, action |-> "<none>", hasNote |-> FALSE, note |-> << >> ]
NoLabel == [ note |-> << >>, isEditing |-> FALSE, width |-> 0, text |-> << >> ]

NoPrompt == [ base |-> "", sections |-> << >>, remaining |-> << >> ]

-----------------------------------------------------------------------------
Init ==
    /\ planModeEnabled = FALSE
    /\ executionMode = FALSE
    /\ restoreTools = None
    /\ todoItems = << >>
    /\ allTools \in Registries
    /\ activeTools \in ActiveChoices(allTools)
    /\ hasUI \in BOOLEAN
    /\ uiStatus = NoStatus
    /\ uiWidget = None
    /\ pc = "idle"
    /\ cursorIndex = 0
    /\ isContinueNoteEditorOpen = FALSE
    /\ continueNote = << >>
    /\ last = "init"
    /\ sent = << >>
    /\ notices = << >>
    /\ callResult = NoCall
    /\ roundStart = NoRound
    /\ enterSnapshot = << >>
    /\ lastArgs = NoArgs
    /\ prompt = NoPrompt
    /\ result = NoResult
    /\ label = NoLabel

hostVars == << allTools, hasUI >>

\* The step is not one of the selector's: no result, no label.
NoKeystroke ==
    /\ result' = NoResult
    /\ label' = NoLabel

\* History variables live only as long as the claims read them: the call result
\* for the state after a tool_call, the round record until the round's result
\* has been handled, the entry record until planning has been left.
KeepRound == roundStart' = IF pc = "selecting" THEN roundStart ELSE NoRound

TrackEnter(s) ==
    enterSnapshot' = IF ~planModeEnabled /\ s.planModeEnabled THEN activeTools
                     ELSE IF planModeEnabled THEN enterSnapshot
                     ELSE << >>

\* A handler's effect s on the closure state, with the bookkeeping around it.
HandlerCore(s, name) ==
    /\ Commit(s)
    /\ last' = name
    /\ TrackEnter(s)
    /\ KeepRound
    /\ callResult' = NoCall
    /\ UNCHANGED hostVars

Handler(s, name) ==
    /\ HandlerCore(s, name)
    /\ lastArgs' = NoArgs
    /\ prompt' = NoPrompt

-----------------------------------------------------------------------------
(* Scheduling.  Handlers run one at a time.  The only await is agent_end's     *)
(* selector (index.ts:411): while it is open (pc = "selecting") the agent run  *)
(* has ended, so no tool_call / turn_end / agent_end arrives, and the selector *)
(* component receives every keystroke (plan-action-ui.ts:155-205), so no       *)
(* command can be typed; session_shutdown is the one handler that may run.     *)

-----------------------------------------------------------------------------
(* /plan command *)

PlanArgs ==
    { "", "   ", "on", " On ", "enable", "start", "off", "OFF", "disable", "stop",
      "exit", "status", "state", "Refactor command parser" }

planCommand(s, args) ==
    LET raw == TrimArg(args)
        command == normalizeArg(raw)
    IN  IF raw = ""
        THEN IF s.planModeEnabled
             THEN exitPlanMode(s, "Plan mode disabled. Back to YOLO mode.", TRUE)
             ELSE enterPlanMode(s)
        ELSE IF command \in { "on", "enable", "start" }
        THEN enterPlanMode(s)
        ELSE IF command \in { "off", "disable", "stop", "exit" }
        THEN exitPlanMode(s, "Plan mode disabled. Back to YOLO mode.", TRUE)
        ELSE IF command \in { "status", "state" }
        THEN notify(s, IF s.planModeEnabled THEN "Plan mode: ON (read-only planning)"
                       ELSE IF s.executionMode
                            THEN "Plan mode: OFF (executing approved plan)"
                            ELSE "Plan mode: OFF (default YOLO mode)", "info")
        ELSE LET s1 == IF ~s.planModeEnabled THEN enterPlanMode(s) ELSE s
             IN  send(s1, UserMessage("forward", << >>, 0, raw))

PlanCommand ==
    /\ pc = "idle"
    /\ \E args \in PlanArgs :
        LET s == planCommand(Cur, args)
        IN  /\ HandlerCore(s, IF planModeEnabled /\ ~s.planModeEnabled THEN "plan_exit"
                               ELSE IF ~planModeEnabled /\ s.planModeEnabled THEN "plan_enter"
                               ELSE "plan")
            /\ lastArgs' = args
    /\ prompt' = NoPrompt
    /\ UNCHANGED << pc, selectorVars >>
    /\ NoKeystroke

\* /todos command
todosCommand(s) ==
    IF Len(s.todoItems) = 0
    THEN notify(s, "No tracked plan steps. Create a plan in /plan mode first.", "info")
    ELSE notifyProgress(s, completedCount(s.todoItems), Len(s.todoItems))

TodosCommand ==
    /\ pc = "idle"
    /\ Handler(todosCommand(Cur), "todos")
    /\ UNCHANGED << pc, selectorVars >>
    /\ NoKeystroke

-----------------------------------------------------------------------------
(* tool_call event *)

ToolNames == { "edit", "write", "ast_rewrite", "bash", "read", "mcp" }

ToolInputs ==
    { [ hasCommand |-> FALSE, command |-> "" ],
      [ hasCommand |-> TRUE, command |-> "ls" ],
      [ hasCommand |-> TRUE, command |-> "rm -rf x" ],
      [ hasCommand |-> TRUE, command |-> "" ] }

\* typeof input.command === "string" ? input.command : ""
commandOf(input) == IF input.hasCommand THEN input.command ELSE ""

toolCall_skipsBashCheck(planning, toolName, input, safe) ==
    IF ~planning THEN [ block |-> FALSE, reason |-> "" ]
    ELSE IF toolName \in WRITE_LIKE_TOOLS
    THEN [ block |-> TRUE, reason |-> "Plan mode is read-only. Approve execution first." ]
    ELSE [ block |-> FALSE, reason |-> "" ]

\* The handler's answer: block with a reason, or nothing (pass through).
\* safe is isSafeReadOnlyCommand's answer for the extracted command.
toolCall(planning, toolName, input, safe) ==
    IF ~planning THEN [ block |-> FALSE, reason |-> "" ]
    ELSE IF toolName \in WRITE_LIKE_TOOLS
    THEN [ block |-> TRUE, reason |-> "Plan mode is read-only. Approve execution first." ]
    ELSE IF toolName = "bash" /\ ~safe
    THEN [ block |-> TRUE, reason |-> commandOf(input) ]
    ELSE [ block |-> FALSE, reason |-> "" ]

ToolCall ==
    /\ pc = "idle"
    /\ \E toolName \in ToolNames, input \in ToolInputs :
         \E safe \in SafeAnswers(commandOf(input)) :
            LET r == toolCall(planModeEnabled, toolName, input, safe)
            IN  callResult' = [ tool |-> toolName, hasCommand |-> input.hasCommand,
                                command |-> input.command, safe |-> safe,
                                planning |-> planModeEnabled,
                                block |-> r.block, reason |-> r.reason ]
    /\ Commit(Cur)
    /\ last' = "tool_call"
    /\ TrackEnter(Cur)
    /\ KeepRound
    /\ lastArgs' = NoArgs
    /\ prompt' = NoPrompt
    /\ UNCHANGED << hostVars, pc, selectorVars >>
    /\ NoKeystroke

-----------------------------------------------------------------------------
(* before_agent_start event *)

BasePrompts == { "You are a coding agent.", "" }

\* The steps listed by todoItems.filter(!completed).map(`${step}. ${text}`).
remainingSteps(items) ==
    LET NotCompleted(item) == ~item.completed
        open == SelectSeq(items, NotCompleted)
    IN  [ i \in 1..Len(open) |-> [ step |-> open[i].step, text |-> open[i].text ] ]

beforeAgentStart_listsAll(s, systemPrompt) ==
    IF s.planModeEnabled
    THEN [ base |-> systemPrompt, sections |-> << "PLAN_MODE_SYSTEM_PROMPT" >>,
           remaining |-> << >> ]
    ELSE IF s.executionMode /\ Len(s.todoItems) > 0
    THEN [ base |-> systemPrompt,
           sections |-> << "YOLO_MODE_SYSTEM_PROMPT", "EXECUTION_REMAINING" >>,
           remaining |-> [ i \in 1..Len(s.todoItems) |->
                             [ step |-> s.todoItems[i].step, text |-> s.todoItems[i].text ] ] ]
    ELSE [ base |-> systemPrompt, sections |-> << "YOLO_MODE_SYSTEM_PROMPT" >>,
           remaining |-> << >> ]

\* The returned systemPrompt: the base prompt, the sections appended to it and
\* the steps the execution section lists.
beforeAgentStart(s, systemPrompt) ==
    IF s.planModeEnabled
    THEN [ base |-> systemPrompt, sections |-> << "PLAN_MODE_SYSTEM_PROMPT" >>,
           remaining |-> << >> ]
    ELSE IF s.executionMode /\ Len(s.todoItems) > 0
    THEN LET remaining == remainingSteps(s.todoItems)
         IN  IF Len(remaining) > 0
             THEN [ base |-> systemPrompt,
                    sections |-> << "YOLO_MODE_SYSTEM_PROMPT", "EXECUTION_REMAINING" >>,
                    remaining |-> remaining ]
             ELSE [ base |-> systemPrompt,
                    sections |-> << "YOLO_MODE_SYSTEM_PROMPT", "EXECUTION_FINISH" >>,
                    remaining |-> << >> ]
    ELSE [ base |-> systemPrompt, sections |-> << "YOLO_MODE_SYSTEM_PROMPT" >>,
           remaining |-> << >> ]

BeforeAgentStart ==
    /\ pc = "idle"
    /\ \E systemPrompt \in BasePrompts : prompt' = beforeAgentStart(Cur, systemPrompt)
    /\ HandlerCore(Cur, "before_agent_start")
    /\ lastArgs' = NoArgs
    /\ UNCHANGED << pc, selectorVars >>
    /\ NoKeystroke

-----------------------------------------------------------------------------
(* turn_end event *)

AllCompleted(items) == \A i \in 1..Len(items) : items[i].completed

turnEnd_staysExecuting(s, message) ==
    IF ~s.executionMode \/ Len(s.todoItems) = 0 THEN s
    ELSE LET text == getAssistantTextFromMessage(message)
         IN  IF IsEmptyText(text) THEN s
             ELSE LET n == markCompletedCount(text, s.todoItems)
                      s1 == [ s EXCEPT !.todoItems = markedItems(text, @) ]
                      s2 == IF n > 0 THEN setStatus(s1) ELSE s1
                  IN  IF AllCompleted(s2.todoItems)
                      THEN notify(setStatus(s2),
                                  "All tracked plan steps are complete.", "info")
                      ELSE s2

turnEnd_remarks(s, message) ==
    IF ~s.executionMode \/ Len(s.todoItems) = 0 THEN s
    ELSE LET text == getAssistantTextFromMessage(message)
         IN  IF IsEmptyText(text) THEN s
             ELSE LET remarked == [ i \in 1..Len(s.todoItems) |->
                                    Step(s.todoItems[i].step, s.todoItems[i].text,
                                         s.todoItems[i].step \in Range(text.markers)) ]
                      s1 == [ s EXCEPT !.todoItems = remarked ]
                      s2 == setStatus(s1)
                  IN  IF AllCompleted(s2.todoItems)
                      THEN notify(setStatus([ s2 EXCEPT !.executionMode = FALSE ]),
                                  "All tracked plan steps are complete.", "info")
                      ELSE s2

turnEnd_ignoresMode(s, message) ==
    IF Len(s.todoItems) = 0 THEN s
    ELSE LET text == getAssistantTextFromMessage(message)
         IN  IF IsEmptyText(text) THEN s
             ELSE LET n == markCompletedCount(text, s.todoItems)
                      s1 == [ s EXCEPT !.todoItems = markedItems(text, @) ]
                      s2 == IF n > 0 THEN setStatus(s1) ELSE s1
                  IN  IF AllCompleted(s2.todoItems)
                      THEN notify(setStatus([ s2 EXCEPT !.executionMode = FALSE ]),
                                  "All tracked plan steps are complete.", "info")
                      ELSE s2

turnEnd(s, message) ==
    IF ~s.executionMode \/ Len(s.todoItems) = 0 THEN s
    ELSE LET text == getAssistantTextFromMessage(message)
         IN  IF IsEmptyText(text) THEN s
             ELSE LET n == markCompletedCount(text, s.todoItems)
                      s1 == [ s EXCEPT !.todoItems = markedItems(text, @) ]
                      s2 == IF n > 0 THEN setStatus(s1) ELSE s1
                  IN  IF AllCompleted(s2.todoItems)
                      THEN notify(setStatus([ s2 EXCEPT !.executionMode = FALSE ]),
                                  "All tracked plan steps are complete.", "info")
                      ELSE s2

TurnEnd ==
    /\ pc = "idle"
    /\ \E message \in Messages : Handler(turnEnd(Cur, message), "turn_end")
    /\ UNCHANGED << pc, selectorVars >>
    /\ NoKeystroke

-----------------------------------------------------------------------------
(* agent_end event, up to its await of the selector *)

MessageLists == { << >> } \cup { << m >> : m \in Messages }
                 \cup { << m, [ role |-> "assistant", text |-> EmptyText ] >> : m \in Messages }
                 \cup { << [ role |-> "assistant",
                             text |-> [ plan |-> << "Add tests" >>, markers |-> << >>,
                                        prose |-> TRUE ] ], m >> : m \in Messages }

\* [...messages].reverse().map(getAssistantTextFromMessage).find(non-empty);
\* EmptyText stands for "none found".
lastAssistantText(messages) ==
    LET hits == { i \in 1..Len(messages) :
                    ~IsEmptyText(getAssistantTextFromMessage(messages[i])) }
    IN  IF hits = { } THEN EmptyText
        ELSE getAssistantTextFromMessage(
               messages[CHOOSE i \in hits : \A j \in hits : j <= i])

agentEndExtract(s, messages) ==
    LET text == lastAssistantText(messages)
        extracted == extractTodoItems(text)
        s1 == IF ~IsEmptyText(text) /\ Len(extracted) > 0
              THEN [ s EXCEPT !.todoItems = extracted ]
              ELSE s
    IN  setStatus(s1)

AgentEnd ==
    /\ pc = "idle"
    /\ IF ~planModeEnabled \/ ~hasUI
       THEN /\ Commit(Cur)
            /\ pc' = "idle"
            /\ last' = "agent_end_skipped"
            /\ roundStart' = NoRound
       ELSE /\ \E messages \in MessageLists :
                 /\ Commit(agentEndExtract(Cur, messages))
                 /\ roundStart' =
                      [ mode |-> Mode, todoItems |-> todoItems,
                        restoreTools |-> restoreTools, activeTools |-> activeTools,
                        extracted |-> extractTodoItems(lastAssistantText(messages)) ]
            /\ pc' = "selecting"
            /\ last' = "agent_end"
    /\ cursorIndex' = 0
    /\ isContinueNoteEditorOpen' = FALSE
    /\ continueNote' = << >>
    /\ TrackEnter(Cur)
    /\ callResult' = NoCall
    /\ lastArgs' = NoArgs
    /\ prompt' = NoPrompt
    /\ UNCHANGED hostVars
    /\ NoKeystroke

-----------------------------------------------------------------------------
(* The selector of plan-action-ui.ts *)

IsWhitespace(c) == c = " "

RECURSIVE DropLeadingWs(_)
DropLeadingWs(s) ==
    IF s # << >> /\ IsWhitespace(s[1]) THEN DropLeadingWs(Tail(s)) ELSE s

RECURSIVE DropTrailingWs(_)
DropTrailingWs(s) ==
    IF s # << >> /\ IsWhitespace(s[Len(s)])
    THEN DropTrailingWs(SubSeq(s, 1, Len(s) - 1)) ELSE s

\* String.prototype.trim
Trim(s) == DropTrailingWs(DropLeadingWs(s))

RECURSIVE CollapseWs(_)
\* replace(/\s+/g, " ")
CollapseWs(s) ==
    IF s = << >> THEN << >>
    ELSE IF IsWhitespace(s[1])
         THEN << " " >> \o CollapseWs(DropLeadingWs(s))
         ELSE << s[1] >> \o CollapseWs(Tail(s))

normalizeContinueNote_trimOnly(input) == Trim(input)

\* normalizeContinueNote
normalizeContinueNote(input) == Trim(CollapseWs(input))

Selection(cancelled, action, hasNote, note) ==
    [ cancelled |-> cancelled, action |-> action, hasNote |-> hasNote, note |-> note ]

enterSelection_emptyNote(cursor, note) ==
    LET selected == ACTION_OPTIONS[cursor + 1]
        normalized == normalizeContinueNote(note)
    IN  IF selected = "continue"
        THEN Selection(FALSE, "continue", TRUE, normalized)
        ELSE Selection(FALSE, selected, FALSE, << >>)

\* The result handed to done() when Enter is pressed in navigation mode.
enterSelection(cursor, note) ==
    LET selected == ACTION_OPTIONS[cursor + 1]
        normalized == normalizeContinueNote(note)
    IN  IF selected = "continue"
        THEN Selection(FALSE, "continue", Len(normalized) > 0, normalized)
        ELSE Selection(FALSE, selected, FALSE, << >>)

-----------------------------------------------------------------------------
(* agent_end event, after the selector returned *)

\* todoItems.find((item) => !item.completed): its index, 0 when there is none.
firstOpenStep(items) ==
    LET open == { i \in 1..Len(items) : ~items[i].completed }
    IN  IF open = { } THEN 0 ELSE CHOOSE i \in open : \A j \in open : i <= j

approveExecutionMode_always(items) == TRUE

\* executionMode = todoItems.length > 0
approveExecutionMode(items) == Len(items) > 0

handleApprove(s) ==
    LET s1 == exitPlanMode([ s EXCEPT !.executionMode = approveExecutionMode(s.todoItems) ],
                           "Plan approved. Entering YOLO mode for execution.", FALSE)
        k == firstOpenStep(s1.todoItems)
    IN  IF k # 0
        THEN send(s1, UserMessage("execute", << >>, s1.todoItems[k].step, s1.todoItems[k].text))
        ELSE send(s1, UserMessage("execute", << >>, 0, ""))

handleRegenerate_keepsSteps(s) ==
    send(setStatus(s), UserMessage("regenerate", << >>, 0, ""))

handleRegenerate(s) ==
    send(setStatus([ s EXCEPT !.todoItems = << >> ]),
         UserMessage("regenerate", << >>, 0, ""))

handleContinue_sendsAlways(s, sel) ==
    LET continueNote_ == IF sel.hasNote THEN Trim(sel.note) ELSE << >>
        k == firstOpenStep(s.todoItems)
    IN  IF k # 0
        THEN send(s, UserMessage("continue", continueNote_,
                                 s.todoItems[k].step, s.todoItems[k].text))
        ELSE send(s, UserMessage("continue", continueNote_, 0, ""))

handleContinue(s, sel) ==
    LET continueNote_ == IF sel.hasNote THEN Trim(sel.note) ELSE << >>
        k == firstOpenStep(s.todoItems)
    IN  IF Len(continueNote_) = 0
        THEN notify(s, "Please enter the requested modifications. Waiting for your input.",
                    "info")
        ELSE IF k # 0
        THEN send(s, UserMessage("continue", continueNote_,
                                 s.todoItems[k].step, s.todoItems[k].text))
        ELSE send(s, UserMessage("continue", continueNote_, 0, ""))

handleSelection_cancelExits(s, sel) ==
    IF sel.cancelled \/ sel.action = "" \/ sel.action = "exit"
    THEN exitPlanMode(s, "Exited plan mode without execution.", TRUE)
    ELSE IF sel.action = "approve" THEN handleApprove(s)
    ELSE IF sel.action = "regenerate" THEN handleRegenerate(s)
    ELSE IF sel.action = "continue" THEN handleContinue(s, sel)
    ELSE s

handleSelection(s, sel) ==
    IF sel.cancelled \/ sel.action = "" THEN s
    ELSE IF sel.action = "approve" THEN handleApprove(s)
    ELSE IF sel.action = "regenerate" THEN handleRegenerate(s)
    ELSE IF sel.action = "continue" THEN handleContinue(s, sel)
    ELSE IF sel.action = "exit"
    THEN exitPlanMode(s, "Exited plan mode without execution.", TRUE)
    ELSE s

SelectionName(sel) ==
    IF sel.cancelled THEN "select_cancelled"
    ELSE IF sel.action = "continue"
         THEN IF sel.hasNote THEN "select_continue_note" ELSE "select_continue_empty"
         ELSE "select_" \o sel.action

\* done(result): the selector closes and the suspended agent_end handler resumes.
Done(sel) ==
    /\ Handler(handleSelection(Cur, sel), SelectionName(sel))
    /\ pc' = "idle"
    /\ cursorIndex' = 0
    /\ isContinueNoteEditorOpen' = FALSE
    /\ continueNote' = << >>
    /\ result' = sel
    /\ label' = NoLabel

\* A keystroke that leaves the selector open.
Stay(cursor, open, note) ==
    /\ cursorIndex' = cursor
    /\ isContinueNoteEditorOpen' = open
    /\ continueNote' = note
    /\ Handler(Cur, "key")
    /\ UNCHANGED pc
    /\ result' = NoResult
    /\ label' = NoLabel

Min(a, b) == IF a < b THEN a ELSE b
Max(a, b) == IF a > b THEN a ELSE b

KeyUp ==
    /\ pc = "selecting" /\ ~isContinueNoteEditorOpen
    /\ Stay(Max(0, cursorIndex - 1), FALSE, continueNote)

KeyDown_wraps ==
    /\ pc = "selecting" /\ ~isContinueNoteEditorOpen
    /\ Stay((cursorIndex + 1) % Len(ACTION_OPTIONS), FALSE, continueNote)

KeyDown ==
    /\ pc = "selecting" /\ ~isContinueNoteEditorOpen
    /\ Stay(Min(Len(ACTION_OPTIONS) - 1, cursorIndex + 1), FALSE, continueNote)

KeyTab_opensAnywhere ==
    /\ pc = "selecting"
    /\ IF isContinueNoteEditorOpen
       THEN Stay(cursorIndex, FALSE, continueNote)
       ELSE Stay(cursorIndex, TRUE, continueNote)

\* Tab: toggles the note editor on the continue option, nothing elsewhere.
KeyTab ==
    /\ pc = "selecting"
    /\ IF isContinueNoteEditorOpen
       THEN Stay(cursorIndex, FALSE, continueNote)
       ELSE Stay(cursorIndex, cursorIndex = CONTINUE_OPTION_INDEX, continueNote)

\* Escape: closes the editor when it is open, cancels the round otherwise.
KeyEscape ==
    /\ pc = "selecting"
    /\ IF isContinueNoteEditorOpen
       THEN Stay(cursorIndex, FALSE, continueNote)
       ELSE Done(Selection(TRUE, "", FALSE, << >>))

\* A printable key in the editor: noteEditor.onChange(value).
KeyChar ==
    /\ pc = "selecting" /\ isContinueNoteEditorOpen
    /\ Len(continueNote) < MaxNoteLen
    /\ \E c \in NoteChars : Stay(cursorIndex, TRUE, Append(continueNote, c))

\* Enter: noteEditor.onSubmit(value) in the editor, the option under the
\* cursor otherwise.
KeyEnter ==
    /\ pc = "selecting"
    /\ IF isContinueNoteEditorOpen
       THEN LET normalized == normalizeContinueNote(continueNote)
            IN  IF Len(normalized) = 0
                THEN Stay(cursorIndex, FALSE, continueNote)
                ELSE Done(Selection(FALSE, "continue", TRUE, normalized))
       ELSE Done(enterSelection(cursorIndex, continueNote))

-----------------------------------------------------------------------------
(* The Continue option label of plan-action-ui.ts: a string is the sequence *)
(* of its UTF-16 code units, one-character strings; the three characters    *)
(* outside ASCII are written by name.                                       *)

EmDash == "<em dash>"
CursorBlock == "<left three eighths block>"
Ellipsis == "<horizontal ellipsis>"

\* ACTION_OPTIONS[CONTINUE_OPTION_INDEX].label
ContinueLabel ==
    << "C", "o", "n", "t", "i", "n", "u", "e", " ",
       "f", "r", "o", "m", " ", "p", "r", "o", "p",
       "o", "s", "e", "d", " ", "p", "l", "a", "n" >>

\* " — note: "
NoteSeparator == << " ", EmDash, " ", "n", "o", "t", "e", ":", " " >>

\* Terminal widths render is called with.
Widths == { 30, 46, 60 }

Notes == SeqsUpTo(NoteChars, MaxNoteLen)

\* buildContinueOptionLabel
buildContinueOptionLabel(baseLabel, note, isEditing, maxLength) ==
    LET normalized == normalizeContinueNote(note)
        suffix == IF isEditing THEN Append(normalized, CursorBlock) ELSE normalized
        inline == baseLabel \o NoteSeparator \o suffix
    IN  IF Len(normalized) = 0 /\ ~isEditing
        THEN baseLabel
        ELSE IF Len(inline) <= maxLength
        THEN inline
        ELSE IF maxLength <= 1
        THEN << Ellipsis >>
        ELSE Append(SubSeq(inline, 1, maxLength - 1), Ellipsis)

\* render: maxInlineLabelLength
maxInlineLabelLength(width) == Max(20, width - 8)

\* render(width): the label of the Continue option for a note, edited or not.
Render ==
    /\ \E note \in Notes, isEditing \in BOOLEAN, width \in Widths :
         label' = [ note |-> note, isEditing |-> isEditing, width |-> width,
                    text |-> buildContinueOptionLabel(ContinueLabel, note, isEditing,
                                                      maxInlineLabelLength(width)) ]
    /\ UNCHANGED << orchVars, hostVars, uiStatus, uiWidget, pc, selectorVars, last,
                    sent, notices, callResult, roundStart, enterSnapshot, lastArgs,
                    prompt, result >>

\* The label builder on its own: any note, editing or not, any width.
SpecLabel == Init /\ [][Render]_vars

-----------------------------------------------------------------------------
(* session events and the host *)

\* session_start, like session_shutdown, may arrive while agent_end is
\* suspended at the selector.
SessionStart ==
    /\ Handler(setStatus(Cur), "session_start")
    /\ UNCHANGED << pc, selectorVars >>
    /\ NoKeystroke

sessionShutdown_setsExecuting(s) ==
    LET s1 == [ s EXCEPT !.executionMode = TRUE ]
    IN  IF hasUI THEN [ s1 EXCEPT !.uiStatus = NoStatus, !.uiWidget = None ] ELSE s1

sessionShutdown_leavesPlanning(s) ==
    LET s1 == [ s EXCEPT !.executionMode = FALSE, !.planModeEnabled = FALSE ]
    IN  IF hasUI THEN [ s1 EXCEPT !.uiStatus = NoStatus, !.uiWidget = None ] ELSE s1

sessionShutdown(s) ==
    LET s1 == [ s EXCEPT !.executionMode = FALSE ]
    IN  IF hasUI THEN [ s1 EXCEPT !.uiStatus = NoStatus, !.uiWidget = None ] ELSE s1

\* session_shutdown may arrive while agent_end is suspended at the selector.
SessionShutdown ==
    /\ Handler(sessionShutdown(Cur), "session_shutdown")
    /\ UNCHANGED << pc, selectorVars >>
    /\ NoKeystroke

\* Outside planning the operator or another extension may change the host's
\* active tool list.
HostSetActiveTools ==
    /\ pc = "idle"
    /\ ~planModeEnabled
    /\ \E tools \in ActiveChoices(allTools) \ { activeTools } :
         Handler([ Cur EXCEPT !.activeTools = tools ], "host_tools")
    /\ UNCHANGED << pc, selectorVars >>
    /\ NoKeystroke

Next ==
    \/ PlanCommand
    \/ TodosCommand
    \/ ToolCall
    \/ BeforeAgentStart
    \/ TurnEnd
    \/ AgentEnd
    \/ KeyUp
    \/ KeyDown
    \/ KeyTab
    \/ KeyEscape
    \/ KeyChar
    \/ KeyEnter
    \/ SessionStart
    \/ SessionShutdown
    \/ HostSetActiveTools

Spec == Init /\ [][Next]_vars

-----------------------------------------------------------------------------
(* Properties *)

MutatingTools == { "edit", "write", "ast_rewrite" }

ExitedPlanning == last \in { "plan_exit", "select_approve", "select_exit" }

\* C1 (as stated): after any exit from planning the host's active tool list
\* equals, element for element and in order, the list that was active right
\* before the most recent enter.
C1_ExitRestoresPriorActive ==
    ExitedPlanning => activeTools = enterSnapshot

\* C1 (amended): after any exit from planning the active tool list equals the
\* list that was active right before the most recent effective enter when that
\* list was non-empty, and the full registry list when it was empty.
C1_ExitRestoresSnapshotOrRegistry ==
    ExitedPlanning =>
        activeTools = IF enterSnapshot # << >> THEN enterSnapshot ELSE allTools

C1_Witness ==
    /\ last = "select_approve"
    /\ enterSnapshot = << "edit", "bash", "read" >>
    /\ activeTools = << "edit", "bash", "read" >>

\* C2: in Planning a tool_call naming a mutating tool (edit, write,
\* ast_rewrite) is answered with a block, whatever its input is.
C2_MutatingBlockedWhilePlanning ==
    (last = "tool_call" /\ Mode = "Planning" /\ callResult.tool \in MutatingTools)
        => callResult.block

C2_Witness ==
    /\ last = "tool_call"
    /\ Mode = "Planning"
    /\ callResult.tool = "ast_rewrite"
    /\ callResult.hasCommand
    /\ callResult.command = "ls"
    /\ callResult.block

\* C3: a tool_call is blocked if and only if mode is Planning and the tool is
\* mutating, or is bash with a command (the empty string when the input has no
\* string command) the classifier reports unsafe; the bash rejection quotes
\* that command; every other call passes.
C3_BlockedIff ==
    last = "tool_call" =>
        /\ callResult.block <=>
             /\ Mode = "Planning"
             /\ \/ callResult.tool \in MutatingTools
                \/ callResult.tool = "bash" /\ ~callResult.safe
        /\ (callResult.block /\ callResult.tool = "bash") =>
             callResult.reason = IF callResult.hasCommand THEN callResult.command ELSE ""

C3_Witness ==
    /\ last = "tool_call"
    /\ Mode = "Planning"
    /\ callResult.tool = "bash"
    /\ ~callResult.hasCommand
    /\ ~callResult.safe
    /\ callResult.block

\* C4: mode becomes Executing, and the execute instruction is sent, only as
\* the direct result of an approval round that returned Approve while mode was
\* Planning.
C4_ExecutionOnlyAfterApproval ==
    [][ ( \/ (Mode' = "Executing" /\ Mode # "Executing")
          \/ \E i \in 1..Len(sent') : sent'[i].kind = "execute" )
        => (last' = "select_approve" /\ pc = "selecting" /\ Mode = "Planning") ]_vars

C4_Witness ==
    /\ last = "select_approve"
    /\ Mode = "Executing"
    /\ Len(sent) = 1
    /\ sent[1].kind = "execute"

\* C5: after Approve the mode is Executing iff the step sequence is non-empty
\* and Idle otherwise; planning is exited with the tools restored and the
\* snapshot consumed; exactly one execute instruction is sent, naming the first
\* incomplete step when there is one.
C5_ApproveOutcome ==
    last = "select_approve" =>
        /\ Mode = IF Len(todoItems) > 0 THEN "Executing" ELSE "Idle"
        /\ ~planModeEnabled
        /\ restoreTools = None
        /\ activeTools = IF enterSnapshot # << >> THEN enterSnapshot ELSE allTools
        /\ Len(sent) = 1
        /\ sent[1].kind = "execute"
        /\ LET open == { i \in 1..Len(todoItems) : ~todoItems[i].completed }
           IN  IF open = { }
               THEN sent[1].step = 0
               ELSE \E k \in open :
                       /\ \A j \in open : k <= j
                       /\ sent[1].step = todoItems[k].step
                       /\ sent[1].text = todoItems[k].text

C5_Witness ==
    /\ last = "select_approve"
    /\ todoItems = << >>
    /\ Mode = "Idle"
    /\ Len(sent) = 1
    /\ sent[1].step = 0

WaitingNotice == "Please enter the requested modifications. Waiting for your input."

CompletionNotice == "All tracked plan steps are complete."

\* C6 (as stated): a cancelled approval round leaves mode, steps, snapshot and
\* active tools equal to what they were when the round began, and sends no
\* instruction.
C6_CancelRestoresRoundStart ==
    last = "select_cancelled" =>
        /\ Mode = roundStart.mode
        /\ todoItems = roundStart.todoItems
        /\ restoreTools = roundStart.restoreTools
        /\ activeTools = roundStart.activeTools
        /\ sent = << >>

\* C6 (amended): cancelling the selector changes nothing and sends nothing;
\* after the round mode, snapshot and active tools equal what they were when
\* the round began, and the step sequence is what the round's re-extraction
\* left (the extracted sequence when non-empty, else the previous one).
C6_CancelKeepsStateAfterExtraction ==
    /\ [][ last' = "select_cancelled" =>
             (UNCHANGED orchVars /\ sent' = << >> /\ notices' = << >>) ]_vars
    /\ [] ( last = "select_cancelled" =>
              /\ Mode = roundStart.mode
              /\ Mode = "Planning"
              /\ restoreTools = roundStart.restoreTools
              /\ activeTools = roundStart.activeTools
              /\ todoItems = IF roundStart.extracted # << >>
                             THEN roundStart.extracted
                             ELSE roundStart.todoItems )

C6_Witness ==
    /\ last = "select_cancelled"
    /\ roundStart.todoItems = << Step(1, "Add tests", FALSE) >>
    /\ Len(roundStart.extracted) = 2
    /\ todoItems = roundStart.extracted

\* C7: Continue without a note leaves the step sequence, the mode (Planning),
\* the snapshot and the read-only tools unchanged, sends no instruction and
\* shows only the waiting notice.
C7_ContinueWithoutNoteWaits ==
    [][ last' = "select_continue_empty" =>
          /\ UNCHANGED orchVars
          /\ Mode' = "Planning"
          /\ sent' = << >>
          /\ Len(notices') = 1
          /\ notices'[1].msg = WaitingNotice ]_vars

C7_Witness ==
    /\ last = "select_continue_empty"
    /\ Mode = "Planning"
    /\ Len(todoItems) = 2
    /\ sent = << >>
    /\ Len(notices) = 1

\* Words of a note: its maximal runs of non-whitespace, with their rank.
WordStarts(t) ==
    { i \in 1..Len(t) : ~IsWhitespace(t[i]) /\ (i = 1 \/ IsWhitespace(t[i - 1])) }

WordAt(t, i) ==
    LET ends == { j \in i..Len(t) : \A k \in i..j : ~IsWhitespace(t[k]) }
    IN  SubSeq(t, i, CHOOSE j \in ends : \A k \in ends : k <= j)

WordsOf(t) ==
    { << Cardinality({ j \in WordStarts(t) : j <= i }), WordAt(t, i) >> : i \in WordStarts(t) }

\* n is t with whitespace runs collapsed to single spaces and trimmed.
IsNormalFormOf(n, t) ==
    /\ WordsOf(n) = WordsOf(t)
    /\ \A i \in 1..Len(n) : IsWhitespace(n[i]) =>
          /\ n[i] = " "
          /\ i > 1 /\ i < Len(n)
          /\ ~IsWhitespace(n[i + 1])

\* C8: Continue with a non-empty note keeps mode Planning and steps, snapshot
\* and active tools unchanged, and sends exactly one refinement instruction
\* carrying the normalized note and, if steps exist, the first incomplete step.
C8_ContinueWithNoteRefines ==
    [][ last' = "select_continue_note" =>
          /\ UNCHANGED orchVars
          /\ Mode' = "Planning"
          /\ Len(sent') = 1
          /\ sent'[1].kind = "continue"
          /\ sent'[1].note # << >>
          /\ IsNormalFormOf(sent'[1].note, continueNote)
          /\ LET open == { i \in 1..Len(todoItems) : ~todoItems[i].completed }
             IN  IF todoItems = << >>
                 THEN sent'[1].step = 0
                 ELSE \E k \in open :
                         /\ \A j \in open : k <= j
                         /\ sent'[1].step = todoItems[k].step
                         /\ sent'[1].text = todoItems[k].text ]_vars

C8_Witness ==
    /\ last = "select_continue_note"
    /\ Mode = "Planning"
    /\ Len(sent) = 1
    /\ sent[1].note = << "a", " ", "a" >>
    /\ sent[1].step = 1
    /\ sent[1].text = "Write parser"

\* C9 (as stated): a turn observed in Executing that leaves every step
\* completed moves to Idle, clears the step sequence and emits the completion
\* notice.
C9_CompletionClearsSteps ==
    (last = "turn_end" /\ \E i \in 1..Len(notices) : notices[i].msg = CompletionNotice)
        => (Mode = "Idle" /\ todoItems = << >>)

\* C9 (amended): a turn observed in Executing that leaves every step completed
\* moves to Idle and emits the completion notice; the step sequence is kept
\* with every step completed, so the progress command reports n/n.
C9_CompletionKeepsSteps ==
    /\ [][ (last' = "turn_end" /\ Mode = "Executing" /\ AllCompleted(todoItems')) =>
             /\ Mode' = "Idle"
             /\ Len(notices') = 1
             /\ notices'[1].msg = CompletionNotice
             /\ Len(todoItems') = Len(todoItems)
             /\ todoItems' # << >> ]_vars
    /\ [][ (last' = "todos" /\ todoItems # << >> /\ AllCompleted(todoItems)) =>
             /\ Len(notices') = 1
             /\ notices'[1].msg = "Plan progress"
             /\ notices'[1].done = Len(todoItems)
             /\ notices'[1].total = Len(todoItems) ]_vars

C9_Witness ==
    /\ last = "todos"
    /\ Mode = "Idle"
    /\ Len(todoItems) = 2
    /\ AllCompleted(todoItems)
    /\ notices[1].msg = "Plan progress"
    /\ notices[1].done = 2

SameStepsGrowing(old, new) ==
    /\ Len(new) = Len(old)
    /\ \A i \in 1..Len(old) :
          /\ new[i].step = old[i].step
          /\ new[i].text = old[i].text
          /\ old[i].completed => new[i].completed

\* C10: a turn_end never un-completes a step (same steps, completed flags only
\* go false -> true); completed records disappear only when the whole sequence
\* is cleared or replaced by a fresh extraction.
C10_CompletionMonotonic ==
    [][ /\ last' = "turn_end" => SameStepsGrowing(todoItems, todoItems')
        /\ \/ SameStepsGrowing(todoItems, todoItems')
           \/ todoItems' = << >>
           \/ (last' = "agent_end" /\ todoItems' = roundStart'.extracted) ]_vars

C10_Witness ==
    /\ last = "turn_end"
    /\ Mode = "Executing"
    /\ Len(todoItems) = 2
    /\ ~todoItems[1].completed
    /\ todoItems[2].completed

PlanRan == last \in { "plan", "plan_enter", "plan_exit" }

OnArgs == { "on", " On ", "enable", "start" }

OffArgs == { "off", "OFF", "disable", "stop", "exit" }

ToggleArgs == { "", "   " }

FreeTextArgs == { "Refactor command parser" }

ErrorNotice == "No read-only tool set could be resolved."

HasNotice(ns, m) == \E i \in 1..Len(ns) : ns[i].msg = m

\* The /plan command that ran in this step called enterPlanMode.
EnterRan ==
    /\ last' \in { "plan", "plan_enter" }
    /\ \/ lastArgs' \in OnArgs
       \/ ~planModeEnabled /\ lastArgs' \in ToggleArgs \cup FreeTextArgs

\* No candidate is in the registry and nothing but mutating tools is active.
NothingPermitted ==
    /\ Range(PLAN_TOOL_CANDIDATES) \cap Range(allTools) = { }
    /\ Range(activeTools) \subseteq MutatingTools

\* C11: when EnterPlanning can resolve no permitted tool it reports an error
\* and aborts: mode, steps and active tools are as before the call.
C11_EnterAbortsUnchanged ==
    [][ (EnterRan /\ ~planModeEnabled /\ NothingPermitted) =>
          /\ HasNotice(notices', ErrorNotice)
          /\ notices'[Len(notices')].type = "error"
          /\ Mode' = Mode
          /\ todoItems' = todoItems
          /\ activeTools' = activeTools ]_vars

C11_Witness ==
    /\ last = "plan"
    /\ lastArgs = "on"
    /\ HasNotice(notices, ErrorNotice)
    /\ Mode = "Executing"
    /\ todoItems # << >>

\* C12: whenever the /plan command forwards free text as a user message, mode
\* is Planning at that moment.
C12_ForwardOnlyWhilePlanning ==
    (PlanRan /\ \E i \in 1..Len(sent) : sent[i].kind = "forward") => Mode = "Planning"

\* C13: the planning flag and the executing flag are never both set.
C13_FlagsExclusive == ~(planModeEnabled /\ executionMode)

C13_Witness ==
    /\ last = "select_approve"
    /\ executionMode
    /\ ~planModeEnabled
    /\ roundStart.mode = "Planning"

\* C14: when an approval round returns Regenerate the step sequence is
\* cleared in full, mode stays Planning with snapshot and active tools
\* unchanged, and exactly one regenerate instruction is sent; afterwards the
\* steps are only ever set as a whole from a later plan's extraction, never
\* merged with what was there.
C14_RegenerateDiscardsPlan ==
    /\ [][ last' = "select_regenerate" =>
             /\ todoItems' = << >>
             /\ Mode = "Planning" /\ Mode' = "Planning"
             /\ restoreTools' = restoreTools
             /\ activeTools' = activeTools
             /\ Len(sent') = 1
             /\ sent'[1].kind = "regenerate" ]_vars
    /\ [][ (todoItems' # todoItems /\ todoItems' # << >>) =>
             \/ /\ last' = "agent_end"
                /\ todoItems' = roundStart'.extracted
             \/ /\ last' = "turn_end"
                /\ SameStepsGrowing(todoItems, todoItems') ]_vars

C14_Witness ==
    /\ last = "select_regenerate"
    /\ Len(roundStart.extracted) = 2
    /\ todoItems = << >>
    /\ Mode = "Planning"
    /\ Len(sent) = 1
    /\ sent[1].kind = "regenerate"

\* The list ExitPlanning installs: the list active before the entry when it
\* was non-empty, else the registry list.
RestoredTools == IF enterSnapshot # << >> THEN enterSnapshot ELSE allTools

\* This step is an approval round returning Exit or an explicit disable
\* command (off/disable/stop/exit or the empty-argument toggle).
ExitOrDisable ==
    \/ last' = "select_exit"
    \/ /\ last' \in { "plan", "plan_exit" }
       /\ lastArgs' \in OffArgs \cup ToggleArgs

\* C15: from Planning, an approval round returning Exit and an explicit
\* disable command both lead to Idle with the tools restored, the snapshot
\* cleared and the steps empty, and send nothing to the agent.
C15_ExitLeadsToIdle ==
    [][ (Mode = "Planning" /\ ExitOrDisable) =>
          /\ Mode' = "Idle"
          /\ activeTools' = RestoredTools
          /\ restoreTools' = None
          /\ todoItems' = << >>
          /\ sent' = << >> ]_vars

C15_Witness ==
    /\ last = "select_exit"
    /\ roundStart.extracted # << >>
    /\ roundStart.restoreTools # None
    /\ todoItems = << >>
    /\ restoreTools = None
    /\ Mode = "Idle"
    /\ activeTools = enterSnapshot

AlreadyNotice == "Plan mode is already enabled."

DisabledNotice == "Plan mode disabled. Back to YOLO mode."

\* The snapshot enterPlanMode captures from an active tool list.
CaptureOf(tools) == IF tools # << >> THEN Some(tools) ELSE None

\* C16 (as stated): whenever EnterPlanning runs while a snapshot is held, the
\* snapshot is kept, in every reachable state.
C16_HeldSnapshotKept ==
    [][ (EnterRan /\ restoreTools # None) => restoreTools' = restoreTools ]_vars

\* C16 (amended): while Planning, EnterPlanning keeps the snapshot and changes
\* nothing but the notice; while not Planning, a snapshot left behind by an
\* aborted entry is replaced by the capture of the current active list.
C16_SnapshotKeptOnlyWhilePlanning ==
    [][ EnterRan =>
          IF planModeEnabled
          THEN /\ restoreTools' = restoreTools
               /\ activeTools' = activeTools
               /\ todoItems' = todoItems
               /\ Mode' = "Planning"
               /\ HasNotice(notices', AlreadyNotice)
          ELSE restoreTools' = CaptureOf(activeTools) ]_vars

C16_Witness ==
    /\ last = "plan"
    /\ lastArgs = "on"
    /\ planModeEnabled
    /\ HasNotice(notices, AlreadyNotice)
    /\ restoreTools = Some(<< "edit", "bash", "read" >>)
    /\ activeTools = << "read", "bash" >>

\* The /plan command that ran in this step is an explicit disable.
DisableRan ==
    /\ last' \in { "plan", "plan_exit" }
    /\ lastArgs' \in OffArgs

\* C17 (as stated): ExitPlanning invoked while not Planning changes neither
\* mode, steps, snapshot nor active tools; a disable command while Executing
\* keeps executing and keeps the steps.
C17_ExitOutsidePlanningNoOp ==
    [][ (~planModeEnabled /\ DisableRan) => UNCHANGED orchVars ]_vars

\* C17 (amended): a disable command while not Planning leaves the snapshot and
\* the active tools alone but resets progress: execution ends, the steps are
\* cleared, mode is Idle, the disabled notice is shown and nothing is sent.
C17_DisableOutsidePlanningResets ==
    [][ (~planModeEnabled /\ DisableRan) =>
          /\ restoreTools' = restoreTools
          /\ activeTools' = activeTools
          /\ ~planModeEnabled'
          /\ ~executionMode'
          /\ todoItems' = << >>
          /\ Mode' = "Idle"
          /\ HasNotice(notices', DisabledNotice)
          /\ uiWidget' = IF hasUI THEN << >> ELSE uiWidget
          /\ sent' = << >> ]_vars

C17_Witness ==
    /\ last = "plan"
    /\ lastArgs = "off"
    /\ Mode = "Idle"
    /\ HasNotice(notices, DisabledNotice)
    /\ activeTools = << "edit", "bash", "read" >>
    /\ enterSnapshot = << >>

\* C18 (as stated): in every state between handlers where mode is not
\* Planning the snapshot is absent.
C18_NoSnapshotOutsidePlanning ==
    Mode # "Planning" => restoreTools = None

\* C18 (amended): outside Planning the snapshot is absent unless the latest
\* entry attempt aborted, whose capture stays until the next attempt; entering
\* captures the active list, planning keeps that capture, leaving clears it.
C18_SnapshotLifetime ==
    /\ [][ /\ (~planModeEnabled /\ planModeEnabled') =>
                restoreTools' = CaptureOf(activeTools)
           /\ (planModeEnabled /\ planModeEnabled') =>
                restoreTools' = restoreTools
           /\ (planModeEnabled /\ ~planModeEnabled') =>
                restoreTools' = None
           /\ (~planModeEnabled /\ ~planModeEnabled') =>
                \/ restoreTools' = restoreTools
                \/ /\ EnterRan
                   /\ HasNotice(notices', ErrorNotice)
                   /\ restoreTools' = CaptureOf(activeTools) ]_vars
    /\ [](restoreTools = None \/ planModeEnabled \/ ~(\E t \in Range(restoreTools[1]) : t \notin MutatingTools))

C18_Witness ==
    /\ last = "plan_exit"
    /\ restoreTools = None
    /\ enterSnapshot = << "edit", "bash", "read" >>
    /\ activeTools = enterSnapshot
    /\ Mode = "Idle"

\* The incomplete steps of items, as (ordinal, text) pairs.
IncompleteSteps(items) ==
    { << items[i].step, items[i].text >> : i \in { k \in 1..Len(items) : ~items[k].completed } }

\* listed holds exactly the incomplete steps of items, by increasing ordinal.
ListsIncompleteInOrder(listed, items) ==
    /\ { << listed[i].step, listed[i].text >> : i \in 1..Len(listed) } = IncompleteSteps(items)
    /\ \A i, j \in 1..Len(listed) : i < j => listed[i].step < listed[j].step

\* C19: the injected system prompt depends on (mode, steps) only: Planning
\* appends the planning contract; Executing with incomplete steps appends the
\* YOLO notice and the list of exactly the incomplete steps in ordinal order;
\* Executing with no steps, or Idle, appends only the YOLO notice; the handler
\* changes no orchestrator state and notifies or sends nothing.
C19_PromptFollowsMode ==
    [][ last' = "before_agent_start" =>
          /\ UNCHANGED << orchVars, uiStatus, uiWidget >>
          /\ sent' = << >>
          /\ notices' = << >>
          /\ prompt'.base \in BasePrompts
          /\ Mode = "Planning" =>
                /\ prompt'.sections = << "PLAN_MODE_SYSTEM_PROMPT" >>
                /\ prompt'.remaining = << >>
          /\ (Mode = "Executing" /\ IncompleteSteps(todoItems) # { }) =>
                /\ prompt'.sections = << "YOLO_MODE_SYSTEM_PROMPT", "EXECUTION_REMAINING" >>
                /\ ListsIncompleteInOrder(prompt'.remaining, todoItems)
          /\ (Mode = "Idle" \/ (Mode = "Executing" /\ todoItems = << >>)) =>
                /\ prompt'.sections = << "YOLO_MODE_SYSTEM_PROMPT" >>
                /\ prompt'.remaining = << >> ]_vars

C19_Witness ==
    /\ last = "before_agent_start"
    /\ Mode = "Executing"
    /\ Len(todoItems) = 2
    /\ todoItems[1].completed
    /\ ~todoItems[2].completed
    /\ prompt.sections = << "YOLO_MODE_SYSTEM_PROMPT", "EXECUTION_REMAINING" >>
    /\ Len(prompt.remaining) = 1
    /\ prompt.remaining[1].step = 2

NoDuplicates(seq) == \A i, j \in 1..Len(seq) : i # j => seq[i] # seq[j]

FirstIndex(seq, x) == CHOOSE i \in 1..Len(seq) : seq[i] = x /\ \A k \in 1..(i - 1) : seq[k] # x

\* picked holds exactly the members of among that occur in from, each once,
\* in the order of their first occurrence in from.
PicksInOrder(picked, from, among) ==
    /\ NoDuplicates(picked)
    /\ Range(picked) = Range(from) \cap among
    /\ \A i, j \in 1..Len(picked) :
          i < j => FirstIndex(from, picked[i]) < FirstIndex(from, picked[j])

\* C20: after every successful EnterPlanning the active tool list is
\* non-empty, duplicate-free and free of mutating tools; it is the candidates
\* the registry exposes, in candidate order, when there are any, and otherwise
\* the previously active tools minus the mutating set in their original order.
C20_ReadOnlySetInstalled ==
    last = "plan_enter" =>
        /\ activeTools # << >>
        /\ NoDuplicates(activeTools)
        /\ Range(activeTools) \cap MutatingTools = { }
        /\ IF Range(PLAN_TOOL_CANDIDATES) \cap Range(allTools) # { }
           THEN PicksInOrder(activeTools, PLAN_TOOL_CANDIDATES, Range(allTools))
           ELSE PicksInOrder(activeTools, enterSnapshot,
                             Range(enterSnapshot) \ MutatingTools)

C20_Witness ==
    /\ last = "plan_enter"
    /\ Range(PLAN_TOOL_CANDIDATES) \cap Range(allTools) = { }
    /\ enterSnapshot = << "edit", "mcp", "mcp" >>
    /\ activeTools = << "mcp" >>

\* The selector is open in navigation mode.
Navigation == pc = "selecting" /\ ~isContinueNoteEditorOpen

LastOption == Len(ACTION_OPTIONS) - 1

\* C21: in navigation mode the cursor stays within the four options (up and
\* down clamp at the ends and never wrap), Enter finishes the round with
\* exactly the option under the cursor, and Escape finishes the round as
\* cancelled with no action.
C21_NavigationKeys ==
    /\ [](cursorIndex \in 0..LastOption)
    /\ [][ Navigation =>
             /\ KeyUp =>
                  /\ cursorIndex' = IF cursorIndex = 0 THEN 0 ELSE cursorIndex - 1
                  /\ pc' = "selecting"
                  /\ result' = NoResult
             /\ KeyDown =>
                  /\ cursorIndex' = IF cursorIndex = LastOption THEN LastOption
                                    ELSE cursorIndex + 1
                  /\ pc' = "selecting"
                  /\ result' = NoResult
             /\ KeyEnter =>
                  /\ pc' = "idle"
                  /\ ~result'.cancelled
                  /\ result'.action = ACTION_OPTIONS[cursorIndex + 1]
             /\ KeyEscape =>
                  /\ pc' = "idle"
                  /\ result'.cancelled
                  /\ result'.action = ""
                  /\ ~result'.hasNote ]_vars

C21_Witness ==
    /\ last = "select_regenerate"
    /\ pc = "idle"
    /\ ~result.cancelled
    /\ result.action = "regenerate"

\* The selector is open in note-editing mode.
Editing == pc = "selecting" /\ isContinueNoteEditorOpen

\* The note holds a character that is not whitespace.
HasText(note) == \E i \in 1..Len(note) : note[i] # " "

\* The keystroke closed the editor and went back to navigation: the round
\* goes on, the note and the cursor are as they were.
BackToNavigation ==
    /\ pc' = "selecting"
    /\ ~isContinueNoteEditorOpen'
    /\ continueNote' = continueNote
    /\ cursorIndex' = cursorIndex
    /\ result' = NoResult
    /\ UNCHANGED orchVars

\* C22: the note editor is entered only from navigation with the cursor on
\* Continue, so it is open only while the cursor is on Continue; while
\* editing, Enter finishes the round as Continue with the note when the note
\* has text and otherwise only returns to navigation; Tab and Escape return to
\* navigation with the note kept and without cancelling the round.
C22_NoteEditing ==
    /\ [](isContinueNoteEditorOpen =>
             pc = "selecting" /\ cursorIndex = CONTINUE_OPTION_INDEX)
    /\ [][ (~isContinueNoteEditorOpen /\ isContinueNoteEditorOpen') =>
             /\ Navigation
             /\ KeyTab
             /\ cursorIndex = CONTINUE_OPTION_INDEX
             /\ continueNote' = continueNote ]_vars
    /\ [][ Editing =>
             /\ KeyEnter =>
                  IF HasText(continueNote)
                  THEN /\ pc' = "idle"
                       /\ last' = "select_continue_note"
                       /\ ~result'.cancelled
                       /\ result'.action = "continue"
                       /\ result'.hasNote
                       /\ HasText(result'.note)
                  ELSE BackToNavigation
             /\ (KeyTab \/ KeyEscape) => BackToNavigation ]_vars

C22_Witness ==
    /\ last = "key"
    /\ pc = "selecting"
    /\ ~isContinueNoteEditorOpen
    /\ cursorIndex = CONTINUE_OPTION_INDEX
    /\ continueNote = << "a", " " >>

\* C23: in every result the selector returns, a note is present only when the
\* round is not cancelled and the action is Continue; a present note is the
\* typed text with whitespace runs collapsed to single spaces and trimmed and
\* is never empty; a note that normalizes to nothing is returned as absent.
C23_ResultNote ==
    [][ result' # NoResult =>
          /\ pc = "selecting" /\ pc' = "idle"
          /\ result'.hasNote =>
                /\ ~result'.cancelled
                /\ result'.action = "continue"
                /\ result'.note # << >>
                /\ IsNormalFormOf(result'.note, continueNote)
          /\ (~result'.cancelled /\ result'.action = "continue") =>
                (result'.hasNote <=> HasText(continueNote))
          /\ ~result'.hasNote => result'.note = << >>
          /\ result'.cancelled => result'.action = "" ]_vars

C23_Witness ==
    /\ result # NoResult
    /\ result.action = "continue"
    /\ result.hasNote
    /\ result.note = << "a", " ", "a" >>
    /\ last = "select_continue_note"

\* The length of the Continue label with its note before any truncation.
CombinedLength(note, isEditing) ==
    Len(ContinueLabel) + Len(NoteSeparator) + Len(normalizeContinueNote(note))
        + (IF isEditing THEN 1 ELSE 0)

\* The rendered label shows a note and the whole does not fit.
LabelOverflows ==
    /\ label # NoLabel
    /\ (HasText(label.note) \/ label.isEditing)
    /\ CombinedLength(label.note, label.isEditing) > maxInlineLabelLength(label.width)

\* C24: for every note and width, when the Continue label with its note
\* exceeds the available length the rendered label ends with the ellipsis and
\* still begins with the complete option label.
C24_TruncationKeepsOptionLabel ==
    LabelOverflows =>
        /\ label.text[Len(label.text)] = Ellipsis
        /\ Len(label.text) > Len(ContinueLabel)
        /\ SubSeq(label.text, 1, Len(ContinueLabel)) = ContinueLabel

\* C26: between handlers, every tracked step is incomplete while Planning,
\* and while Executing the step sequence is non-empty and has an incomplete
\* step, so the prompt never takes its "finish" branch and Approve names
\* step 1 whenever steps exist.
C26_ProgressInvariant ==
    /\ [](Mode = "Planning" => \A i \in 1..Len(todoItems) : ~todoItems[i].completed)
    /\ [](Mode = "Executing" =>
             /\ todoItems # << >>
             /\ \E i \in 1..Len(todoItems) : ~todoItems[i].completed)
    /\ [](last = "before_agent_start" =>
             prompt.sections # << "YOLO_MODE_SYSTEM_PROMPT", "EXECUTION_FINISH" >>)
    /\ []((last = "select_approve" /\ todoItems # << >>) =>
             /\ Len(sent) = 1
             /\ sent[1].kind = "execute"
             /\ sent[1].step = 1
             /\ sent[1].step = todoItems[1].step)

C26_Witness ==
    /\ last = "turn_end"
    /\ Mode = "Executing"
    /\ Len(todoItems) = 2
    /\ todoItems[2].completed
    /\ ~todoItems[1].completed

\* The steps an approval round works on: the plan extracted when the round
\* began, or the steps held before when nothing could be extracted.
RoundSteps ==
    IF roundStart.extracted # << >> THEN roundStart.extracted ELSE roundStart.todoItems

====
